---- MODULE Spec2Model ----
(* Model of pegasus_client_impl (src/client_lib/pegasus_client_impl.cpp):   *)
(* one client thread issuing one public operation at a time, the transport  *)
(* thread that delivers the completion of the request it issued, and the    *)
(* process-wide error translation table.                                    *)
EXTENDS Integers, Sequences, FiniteSets, TLC

(* ------------------------------------------------------------------ *)
(* Bounds of the model                                                 *)
(* ------------------------------------------------------------------ *)
MaxExcess == 2
MaxStorageStatus == 13
MaxPartitions == 10
MaxSplitCount == 4
MaxHashKeyLen == 1
MaxSortKeyLen == 2

(* ------------------------------------------------------------------ *)
(* Program constants                                                   *)
(* ------------------------------------------------------------------ *)
UINT16_MAX == 65535
ROCSKDB_ERROR_START == -1000
INT_MAX == 2147483647
INT_MIN == (-INT_MAX) - 1

(* ::dsn::error_code values: ERR_OK is 0, the others are distinct       *)
(* positive ids handed out by the runtime's error registry.             *)
ERR_OK == 0
ERR_TIMEOUT == 5
ERR_BUSY == 7
ERR_OBJECT_NOT_FOUND == 10
ERR_HANDLER_NOT_FOUND == 11
ERR_NETWORK_FAILURE == 14
ERR_INVALID_STATE == 20
ERR_FILE_OPERATION_FAILED == 25
ERR_APP_NOT_EXIST == 40
ERR_APP_EXIST == 41

(* client error codes (pegasus/error_def.h)                             *)
PERR_OK == 0
PERR_UNKNOWN == -1
PERR_TIMEOUT == -2
PERR_OBJECT_NOT_FOUND == -3
PERR_NETWORK_FAILURE == -4
PERR_HANDLER_NOT_FOUND == -5
PERR_APP_NOT_EXIST == -101
PERR_APP_EXIST == -102
PERR_SERVER_INTERNAL_ERROR == -103
PERR_SERVER_CHANGED == -104
PERR_INVALID_HASH_KEY == -202
PERR_INVALID_VALUE == -203
PERR_INVALID_SPLIT_COUNT == -206

(* ------------------------------------------------------------------ *)
(* The public functions and how their bodies are built                 *)
(* ------------------------------------------------------------------ *)
SyncWrappers ==
    {"set", "multi_set", "get", "multi_get", "multi_get_sortkeys",
     "del", "multi_del", "get_unordered_scanners"}

AsyncRpcForms ==
    {"async_set", "async_multi_set", "async_get", "async_multi_get",
     "async_multi_get_sortkeys", "async_del", "async_multi_del"}

SyncRpcForms == {"ttl", "sortkey_count"}

AsyncForms == AsyncRpcForms \cup {"async_get_scanner", "async_get_unordered_scanners"}

PublicFunctions ==
    SyncWrappers \cup AsyncForms \cup SyncRpcForms \cup {"exist", "get_scanner"}

Callee_wrong_async_form(fn) ==
    CASE fn = "set" -> <<"async_set">>
      [] fn = "multi_set" -> <<"async_multi_set">>
      [] fn = "get" -> <<"async_get">>
      [] fn = "multi_get" -> <<"async_multi_get_sortkeys">>
      [] fn = "multi_get_sortkeys" -> <<"async_multi_get_sortkeys">>
      [] fn = "del" -> <<"async_del">>
      [] fn = "multi_del" -> <<"async_multi_del">>
      [] fn = "get_unordered_scanners" -> <<"async_get_unordered_scanners">>
      [] fn = "exist" -> <<"ttl">>
      [] fn = "async_get_scanner" -> <<"get_scanner">>
      [] OTHER -> <<>>

(* the member function that the body of fn calls, <<>> when it calls none *)
Callee(fn) ==
    CASE fn = "set" -> <<"async_set">>
      [] fn = "multi_set" -> <<"async_multi_set">>
      [] fn = "get" -> <<"async_get">>
      [] fn = "multi_get" -> <<"async_multi_get">>
      [] fn = "multi_get_sortkeys" -> <<"async_multi_get_sortkeys">>
      [] fn = "del" -> <<"async_del">>
      [] fn = "multi_del" -> <<"async_multi_del">>
      [] fn = "get_unordered_scanners" -> <<"async_get_unordered_scanners">>
      [] fn = "exist" -> <<"ttl">>
      [] fn = "async_get_scanner" -> <<"get_scanner">>
      [] OTHER -> <<>>

RECURSIVE CallChain(_)
CallChain(fn) ==
    IF Callee(fn) = <<>> THEN <<fn>> ELSE <<fn>> \o CallChain(Callee(fn)[1])

Last(s) == s[Len(s)]

(* the transport entry point a function hands its request to *)
Rpc(fn) ==
    CASE fn = "async_set" -> "put"
      [] fn = "async_multi_set" -> "multi_put"
      [] fn = "async_get" -> "get"
      [] fn = "async_multi_get" -> "multi_get"
      [] fn = "async_multi_get_sortkeys" -> "multi_get"
      [] fn = "async_del" -> "remove"
      [] fn = "async_multi_del" -> "multi_remove"
      [] fn = "sortkey_count" -> "sortkey_count_sync"
      [] fn = "ttl" -> "ttl_sync"
      [] fn = "async_get_unordered_scanners" -> "RPC_CM_QUERY_PARTITION_CONFIG_BY_INDEX"

(* ------------------------------------------------------------------ *)
(* Parameter checks: the set of errors reported, {} when the check     *)
(* passes.  n is hash_key.size().                                      *)
(* ------------------------------------------------------------------ *)
async_set_check_wide(n) ==
    IF n > UINT16_MAX + 1 THEN {PERR_INVALID_HASH_KEY} ELSE {}

async_set_check(n) ==
    IF n >= UINT16_MAX THEN {PERR_INVALID_HASH_KEY} ELSE {}

async_get_check_nonempty(n) ==
    IF n = 0 THEN {PERR_INVALID_HASH_KEY}
    ELSE IF n >= UINT16_MAX THEN {PERR_INVALID_HASH_KEY}
    ELSE {}

async_get_check(n) ==
    IF n >= UINT16_MAX THEN {PERR_INVALID_HASH_KEY} ELSE {}

async_del_check_accepts_all(n) == {}

async_del_check(n) ==
    IF n >= UINT16_MAX THEN {PERR_INVALID_HASH_KEY} ELSE {}

ttl_check_nonempty(n) ==
    IF n = 0 THEN {PERR_INVALID_HASH_KEY}
    ELSE IF n >= UINT16_MAX THEN {PERR_INVALID_HASH_KEY}
    ELSE {}

ttl_check(n) ==
    IF n >= UINT16_MAX THEN {PERR_INVALID_HASH_KEY} ELSE {}

async_multi_set_check(n, kvs_empty) ==
    IF n = 0 THEN {PERR_INVALID_HASH_KEY}
    ELSE IF n >= UINT16_MAX THEN {PERR_INVALID_HASH_KEY}
    ELSE IF kvs_empty THEN {PERR_INVALID_VALUE}
    ELSE {}

async_multi_get_check_len_only(n) ==
    IF n >= UINT16_MAX THEN {PERR_INVALID_HASH_KEY} ELSE {}

async_multi_get_check(n) ==
    IF n = 0 THEN {PERR_INVALID_HASH_KEY}
    ELSE IF n >= UINT16_MAX THEN {PERR_INVALID_HASH_KEY}
    ELSE {}

async_multi_get_sortkeys_check(n) ==
    IF n = 0 THEN {PERR_INVALID_HASH_KEY}
    ELSE IF n >= UINT16_MAX THEN {PERR_INVALID_HASH_KEY}
    ELSE {}

sortkey_count_check(n) ==
    IF n = 0 THEN {PERR_INVALID_HASH_KEY}
    ELSE IF n >= UINT16_MAX THEN {PERR_INVALID_HASH_KEY}
    ELSE {}

async_multi_del_check_no_value(n, sort_keys_empty) ==
    IF n = 0 THEN {PERR_INVALID_HASH_KEY}
    ELSE IF n >= UINT16_MAX THEN {PERR_INVALID_HASH_KEY}
    ELSE {}

async_multi_del_check(n, sort_keys_empty) ==
    IF n = 0 THEN {PERR_INVALID_HASH_KEY}
    ELSE IF n >= UINT16_MAX THEN {PERR_INVALID_HASH_KEY}
    ELSE IF sort_keys_empty THEN {PERR_INVALID_VALUE}
    ELSE {}

get_scanner_check(n) ==
    IF n >= UINT16_MAX THEN {PERR_INVALID_HASH_KEY}
    ELSE IF n = 0 THEN {PERR_INVALID_HASH_KEY}
    ELSE {}

async_get_unordered_scanners_check_negative_only(max_split_count) ==
    IF max_split_count < 0 THEN {PERR_INVALID_SPLIT_COUNT} ELSE {}

async_get_unordered_scanners_check(max_split_count) ==
    IF max_split_count <= 0 THEN {PERR_INVALID_SPLIT_COUNT} ELSE {}

(* the check that function fn runs on the arguments of call c *)
CheckParams(fn, c) ==
    CASE fn = "async_set" -> async_set_check(c.hash_len)
      [] fn = "async_get" -> async_get_check(c.hash_len)
      [] fn = "async_del" -> async_del_check(c.hash_len)
      [] fn = "ttl" -> ttl_check(c.hash_len)
      [] fn = "async_multi_set" -> async_multi_set_check(c.hash_len, c.coll_empty)
      [] fn = "async_multi_get" -> async_multi_get_check(c.hash_len)
      [] fn = "async_multi_get_sortkeys" -> async_multi_get_sortkeys_check(c.hash_len)
      [] fn = "sortkey_count" -> sortkey_count_check(c.hash_len)
      [] fn = "async_multi_del" -> async_multi_del_check(c.hash_len, c.coll_empty)
      [] fn = "get_scanner" -> get_scanner_check(c.hash_len)
      [] fn = "async_get_unordered_scanners" ->
             async_get_unordered_scanners_check(c.max_split_count)

(* ------------------------------------------------------------------ *)
(* Inputs                                                              *)
(* ------------------------------------------------------------------ *)
HashKeySizes == (0..MaxHashKeyLen) \cup ((UINT16_MAX - 1)..(UINT16_MAX + MaxExcess))

SplitCounts == (-1)..MaxSplitCount

PartitionCounts == 0..MaxPartitions

(* statuses a storage response may carry in its int32 error field *)
StorageStatuses ==
    (0..MaxStorageStatus)
        \cup {-1, ROCSKDB_ERROR_START, ROCSKDB_ERROR_START - ERR_TIMEOUT, INT_MAX, INT_MIN}

(* codes the transport may complete a request with; ERR_BUSY has no    *)
(* entry in the translation table                                      *)
TransportCodes ==
    {ERR_OK, ERR_TIMEOUT, ERR_FILE_OPERATION_FAILED, ERR_INVALID_STATE,
     ERR_OBJECT_NOT_FOUND, ERR_NETWORK_FAILURE, ERR_HANDLER_NOT_FOUND,
     ERR_APP_NOT_EXIST, ERR_APP_EXIST, ERR_BUSY}

(* codes the metadata service may put in response.err *)
MetaCodes == {ERR_OK, ERR_OBJECT_NOT_FOUND, ERR_BUSY}

(* byte values keys are made of: the smallest and the largest *)
ByteSamples == {0, 255}

(* the byte strings of at most n bytes *)
Strings(n) == UNION {[1..k -> ByteSamples] : k \in 0..n}

SortKeys == Strings(MaxSortKeyLen)

(* a hash key of at most MaxHashKeyLen bytes is listed byte by byte;   *)
(* of a longer one only the size is kept                               *)
Listed(n) == n <= MaxHashKeyLen

HashKeysOfSize(n) == IF Listed(n) THEN [1..n -> ByteSamples] ELSE {<<>>}

(* int ttl_seconds arguments *)
TtlSeconds == {0, 1, -1, INT_MAX}

(* values utils::epoch_now() may return *)
EpochNows == {1700000000}

(* scan_options: the two inclusivity flags *)
ScanOptions ==
    {[start_inclusive |-> a, stop_inclusive |-> b] : a \in BOOLEAN, b \in BOOLEAN}

TakesHashKey(fn) ==
    fn \notin {"get_unordered_scanners", "async_get_unordered_scanners"}

TakesCollection(fn) ==
    fn \in {"multi_set", "async_multi_set", "multi_get", "async_multi_get",
            "multi_del", "async_multi_del"}

TakesInfo(fn) ==
    fn \in {"set", "multi_set", "get", "multi_get", "multi_get_sortkeys",
            "exist", "sortkey_count", "del", "multi_del", "ttl"}

(* the arguments of one invocation of a public function *)
Calls ==
    { [fn |-> f, hash_len |-> n, coll_empty |-> e, has_cb |-> cb,
       has_info |-> i, max_split_count |-> m] :
        f \in PublicFunctions, n \in HashKeySizes, e \in BOOLEAN,
        cb \in BOOLEAN, i \in BOOLEAN, m \in SplitCounts }

WellFormedCall(c) ==
    /\ (~TakesHashKey(c.fn) => c.hash_len = 1)
    /\ (~TakesCollection(c.fn) => ~c.coll_empty)
    /\ (c.fn \notin AsyncForms => c.has_cb)
    /\ (~TakesInfo(c.fn) => ~c.has_info)
    /\ (TakesHashKey(c.fn) => c.max_split_count = 1)

WellFormedCalls == {c \in Calls : WellFormedCall(c)}

NoCall ==
    [fn |-> "none", hash_len |-> 0, coll_empty |-> FALSE, has_cb |-> FALSE,
     has_info |-> FALSE, max_split_count |-> 0]

(* internal_info(): every field "not applicable" *)
DefaultInfo == [app_id |-> -1, partition_index |-> -1, decree |-> -1, server |-> ""]

(* what the caller's info object holds before the call *)
PriorInfo == [app_id |-> 0, partition_index |-> 0, decree |-> 0, server |-> "prior"]

(* a storage response: two-level status is (transport code, error) *)
StorageResponses ==
    { [error |-> e, app_id |-> 2, partition_index |-> 3, decree |-> 7,
       server |-> "replica", data |-> d] :
        e \in StorageStatuses, d \in {1, 2} }

(* a default-constructed response object (never unmarshalled) *)
NoStorageResponse ==
    [error |-> 0, app_id |-> 0, partition_index |-> 0, decree |-> 0,
     server |-> "", data |-> 0]

MetaResponses ==
    { [err |-> e, partition_count |-> p] : e \in MetaCodes, p \in PartitionCounts }

NoMetaResponse == [err |-> ERR_OK, partition_count |-> 0]

(* ------------------------------------------------------------------ *)
(* State                                                               *)
(* ------------------------------------------------------------------ *)
VARIABLES
    server_error_to_client, \* the static translation table
    pc,             \* position of the client thread
    call,           \* arguments of the invocation in progress
    chain,          \* member functions entered by the invocation, outermost first
    sent,           \* requests handed to the transport by the invocation
    pending,        \* a request is outstanding at the transport
    pr,             \* what a blocking transport call (xxx_sync) returned
    cbstep,         \* statement of the wrapper's lambda the transport thread is at
    ret,            \* the wrapper's captured `int ret`
    notified,       \* state of the wrapper's notify_event op_completed
    out,            \* the caller's output locations
    continuations,  \* invocations of the continuation handed to the async form
    tracking_ended, \* err.end_tracking() ran in the completion handler
    completions,    \* (transport code, response) pairs the transport completed with
    result,         \* <<v>> once the function returned v, <<>> before (or void)
    req             \* the request outstanding at the transport with the arguments it
                    \* was built from (NoReq once completed); get_scanner's arguments

vars ==
    <<server_error_to_client, pc, call, chain, sent, pending, pr, cbstep, ret,
      notified, out, continuations, tracking_ended, completions, result, req>>

(* ------------------------------------------------------------------ *)
(* Error translation                                                   *)
(* ------------------------------------------------------------------ *)
init_error_table_short_loop ==
    [e \in {ERR_OK, ERR_TIMEOUT, ERR_FILE_OPERATION_FAILED, ERR_INVALID_STATE,
            ERR_OBJECT_NOT_FOUND, ERR_NETWORK_FAILURE, ERR_HANDLER_NOT_FOUND,
            ERR_APP_NOT_EXIST, ERR_APP_EXIST} \cup {-i : i \in 1001..1011} |->
        CASE e = ERR_OK -> PERR_OK
          [] e = ERR_TIMEOUT -> PERR_TIMEOUT
          [] e = ERR_FILE_OPERATION_FAILED -> PERR_SERVER_INTERNAL_ERROR
          [] e = ERR_INVALID_STATE -> PERR_SERVER_CHANGED
          [] e = ERR_OBJECT_NOT_FOUND -> PERR_OBJECT_NOT_FOUND
          [] e = ERR_NETWORK_FAILURE -> PERR_NETWORK_FAILURE
          [] e = ERR_HANDLER_NOT_FOUND -> PERR_HANDLER_NOT_FOUND
          [] e = ERR_APP_NOT_EXIST -> PERR_APP_NOT_EXIST
          [] e = ERR_APP_EXIST -> PERR_APP_EXIST
          [] OTHER -> e]

init_error_table_swapped ==
    [e \in {ERR_OK, ERR_TIMEOUT, ERR_FILE_OPERATION_FAILED, ERR_INVALID_STATE,
            ERR_OBJECT_NOT_FOUND, ERR_NETWORK_FAILURE, ERR_HANDLER_NOT_FOUND,
            ERR_APP_NOT_EXIST, ERR_APP_EXIST} \cup {-i : i \in 1001..1012} |->
        CASE e = ERR_OK -> PERR_OK
          [] e = ERR_TIMEOUT -> PERR_TIMEOUT
          [] e = ERR_FILE_OPERATION_FAILED -> PERR_SERVER_CHANGED
          [] e = ERR_INVALID_STATE -> PERR_SERVER_INTERNAL_ERROR
          [] e = ERR_OBJECT_NOT_FOUND -> PERR_OBJECT_NOT_FOUND
          [] e = ERR_NETWORK_FAILURE -> PERR_NETWORK_FAILURE
          [] e = ERR_HANDLER_NOT_FOUND -> PERR_HANDLER_NOT_FOUND
          [] e = ERR_APP_NOT_EXIST -> PERR_APP_NOT_EXIST
          [] e = ERR_APP_EXIST -> PERR_APP_EXIST
          [] OTHER -> e]

(* the table init_error builds *)
init_error_table ==
    [e \in {ERR_OK, ERR_TIMEOUT, ERR_FILE_OPERATION_FAILED, ERR_INVALID_STATE,
            ERR_OBJECT_NOT_FOUND, ERR_NETWORK_FAILURE, ERR_HANDLER_NOT_FOUND,
            ERR_APP_NOT_EXIST, ERR_APP_EXIST} \cup {-i : i \in 1001..1012} |->
        CASE e = ERR_OK -> PERR_OK
          [] e = ERR_TIMEOUT -> PERR_TIMEOUT
          [] e = ERR_FILE_OPERATION_FAILED -> PERR_SERVER_INTERNAL_ERROR
          [] e = ERR_INVALID_STATE -> PERR_SERVER_CHANGED
          [] e = ERR_OBJECT_NOT_FOUND -> PERR_OBJECT_NOT_FOUND
          [] e = ERR_NETWORK_FAILURE -> PERR_NETWORK_FAILURE
          [] e = ERR_HANDLER_NOT_FOUND -> PERR_HANDLER_NOT_FOUND
          [] e = ERR_APP_NOT_EXIST -> PERR_APP_NOT_EXIST
          [] e = ERR_APP_EXIST -> PERR_APP_EXIST
          [] OTHER -> e]

get_client_error_raw_code(server_error) ==
    IF server_error \in DOMAIN server_error_to_client
    THEN server_error_to_client[server_error]
    ELSE server_error

get_client_error(server_error) ==
    IF server_error \in DOMAIN server_error_to_client
    THEN server_error_to_client[server_error]
    ELSE PERR_UNKNOWN

(* ROCSKDB_ERROR_START - rocskdb_error in 32-bit two's-complement int *)
get_rocksdb_server_error(rocskdb_error) ==
    IF rocskdb_error = 0 THEN 0
    ELSE IF rocskdb_error <= INT_MAX + ROCSKDB_ERROR_START + 1
         THEN ROCSKDB_ERROR_START - rocskdb_error
         ELSE (INT_MAX - rocskdb_error) + (INT_MAX + ROCSKDB_ERROR_START + 2)

(* the argument of get_client_error in every storage completion handler *)
ServerError(err, response_error) ==
    IF err = ERR_OK THEN get_rocksdb_server_error(response_error) ELSE err

(* ------------------------------------------------------------------ *)
(* Completion handlers (the new_callback lambdas)                      *)
(* ------------------------------------------------------------------ *)
WriteClass == {"async_set", "async_multi_set", "async_del", "async_multi_del"}

HandlerInfo_decree_never_filled(fn, err, response) ==
    IF err # ERR_OK THEN DefaultInfo
    ELSE [DefaultInfo EXCEPT !.app_id = response.app_id,
                             !.partition_index = response.partition_index,
                             !.server = response.server]

(* the internal_info the handler of fn fills *)
HandlerInfo(fn, err, response) ==
    IF err # ERR_OK THEN DefaultInfo
    ELSE IF fn \in WriteClass
         THEN [app_id |-> response.app_id,
               partition_index |-> response.partition_index,
               decree |-> response.decree,
               server |-> response.server]
         ELSE [DefaultInfo EXCEPT !.app_id = response.app_id,
                                  !.partition_index = response.partition_index,
                                  !.server = response.server]

(* a payload holding nothing: data 0 stands for the empty string / map *)
(* / set and for a zero count, scanners is the vector of split         *)
(* scanners (each its partition-index list), scanner a range scanner   *)
NoScanner ==
    [kind |-> "none", listed |-> FALSE, hash |-> <<>>, start |-> <<>>, stop |-> <<>>,
     start_inclusive |-> FALSE, stop_inclusive |-> FALSE]

NoPayload == [data |-> 0, scanners |-> <<>>, scanner |-> NoScanner]

(* the operation-specific payload the handler of fn decodes *)
HandlerPayload(fn, err, response) ==
    CASE fn = "async_get" ->
             IF err = ERR_OK /\ response.error = 0
             THEN [NoPayload EXCEPT !.data = response.data]
             ELSE NoPayload
      [] fn \in {"async_multi_get", "async_multi_get_sortkeys", "async_multi_del"} ->
             IF err = ERR_OK
             THEN [NoPayload EXCEPT !.data = response.data]
             ELSE NoPayload
      [] OTHER -> NoPayload

(* the arguments the handler of fn passes to user_callback *)
HandlerArgs(fn, err, response) ==
    [err |-> get_client_error(ServerError(err, response.error)),
     payload |-> HandlerPayload(fn, err, response),
     info |-> HandlerInfo(fn, err, response)]

CheckFailureArgs_stale_payload(fn, e) ==
    [err |-> e, payload |-> [NoPayload EXCEPT !.data = 1], info |-> DefaultInfo]

(* arguments of the continuation on a parameter-check failure *)
CheckFailureArgs(fn, e) ==
    [err |-> e, payload |-> NoPayload, info |-> DefaultInfo]

(* count / split: integer division by zero is undefined; the build     *)
(* either traps (<<>>) or yields a quotient without trapping           *)
DivOutcomes(count, split) ==
    IF split = 0 THEN {<<>>, <<0>>} ELSE {<<count \div split>>}

Min_ignores_count(a, b) == b

Min(a, b) == IF a < b THEN a ELSE b

RECURSIVE SplitGroups_no_advance(_, _, _, _, _)
SplitGroups_no_advance(i, split, size, more, count) ==
    IF i >= split THEN <<>>
    ELSE LET s == size + (IF i < more THEN 1 ELSE 0)
         IN  <<[j \in 1..s |-> count - j]>>
                 \o SplitGroups_no_advance(i + 1, split, size, more, count)

(* the partition-index lists of scanners i, i+1, ..., split-1 *)
RECURSIVE SplitGroups(_, _, _, _, _)
SplitGroups(i, split, size, more, count) ==
    IF i >= split THEN <<>>
    ELSE LET s == size + (IF i < more THEN 1 ELSE 0)
         IN  <<[j \in 1..s |-> count - j]>>
                 \o SplitGroups(i + 1, split, size, more, count - s)

MetaHandlerArgs_ignores_response_err(max_split_count, err, response, q) ==
    LET count == response.partition_count
        split == Min(count, max_split_count)
        more == count - q * split
    IN  [err |-> get_client_error(IF err = ERR_OK THEN response.err ELSE err),
         payload |-> IF err = ERR_OK
                     THEN [NoPayload EXCEPT
                              !.scanners = SplitGroups(0, split, q, more, count)]
                     ELSE NoPayload,
         info |-> DefaultInfo]

(* arguments the metadata completion handler passes to user_callback,  *)
(* given the quotient q the division produced                          *)
MetaHandlerArgs(max_split_count, err, response, q) ==
    LET count == response.partition_count
        split == Min(count, max_split_count)
        more == count - q * split
    IN  [err |-> get_client_error(IF err = ERR_OK THEN response.err ELSE err),
         payload |-> IF err = ERR_OK /\ response.err = ERR_OK
                     THEN [NoPayload EXCEPT
                              !.scanners = SplitGroups(0, split, q, more, count)]
                     ELSE NoPayload,
         info |-> DefaultInfo]

(* ------------------------------------------------------------------ *)
(* Key codec and clock (pegasus_key_schema.h and pegasus_utils.h, not  *)
(* part of this source file), as the specification describes them      *)
(* ------------------------------------------------------------------ *)
(* [2-byte big-endian length of hash_key][hash_key bytes][sort_key bytes] *)
pegasus_generate_key(hash_key, sort_key) ==
    <<Len(hash_key) \div 256, Len(hash_key) % 256>> \o hash_key \o sort_key

RECURSIVE StripTrailingFF(_)
StripTrailingFF(buf) ==
    IF buf # <<>> /\ buf[Len(buf)] = 255
    THEN StripTrailingFF(SubSeq(buf, 1, Len(buf) - 1))
    ELSE buf

(* the smallest key above every key of hash_key: the encoded hash-key  *)
(* segment incremented as a big-endian number, nothing appended        *)
pegasus_generate_next_blob(hash_key) ==
    LET buf == StripTrailingFF(pegasus_generate_key(hash_key, <<>>))
    IN  [buf EXCEPT ![Len(buf)] = @ + 1]

RECURSIVE SegmentHash(_, _)
SegmentHash(bytes, acc) ==
    IF bytes = <<>> THEN acc
    ELSE SegmentHash(Tail(bytes), (acc * 31 + bytes[1] + 1) % 65521)

(* a function of the hash-key segment of the encoded key only *)
pegasus_key_hash(key) ==
    LET hash_key_len == key[1] * 256 + key[2]
    IN  SegmentHash(SubSeq(key, 3, 2 + hash_key_len), 7)

(* ------------------------------------------------------------------ *)
(* Request construction                                                *)
(* ------------------------------------------------------------------ *)
NoReq ==
    [built |-> FALSE, listed |-> FALSE, fn |-> "none", hash_key |-> <<>>,
     sort_key |-> <<>>, stop_sort_key |-> <<>>,
     start_inclusive |-> FALSE, stop_inclusive |-> FALSE,
     ttl_seconds |-> 0, epoch_now |-> 0, expire_ts_seconds |-> 0,
     routing_key |-> <<>>, partition_hash |-> 0]

(* functions that address one record: their request key carries the    *)
(* sort key                                                            *)
PointForms == {"async_set", "async_get", "async_del", "ttl"}

(* functions whose request carries expire_ts_seconds *)
ExpiringForms == {"async_set", "async_multi_set"}

RoutingKey_swapped(fn, hash_key, sort_key) ==
    IF fn \in PointForms
    THEN pegasus_generate_key(hash_key, sort_key)
    ELSE pegasus_generate_key(<<>>, hash_key)

(* the blob whose pegasus_key_hash is passed to the transport: req.key *)
(* for the point functions, tmp_key (empty sort key) for the others    *)
RoutingKey(fn, hash_key, sort_key) ==
    IF fn \in PointForms
    THEN pegasus_generate_key(hash_key, sort_key)
    ELSE pegasus_generate_key(hash_key, <<>>)

(* ttl_seconds + utils::epoch_now() stored in the request's 32-bit     *)
(* expire_ts_seconds                                                   *)
ExpireTs(ttl_seconds, now) ==
    IF ttl_seconds = 0 THEN 0
    ELSE IF ttl_seconds <= INT_MAX - now
         THEN ttl_seconds + now
         ELSE INT_MIN + ((ttl_seconds - INT_MAX) + (now - 1))

(* the request function fn builds from its arguments *)
BuildRequest(fn, hash_len, hash_key, sort_key, ttl_seconds, now) ==
    [NoReq EXCEPT
        !.built = TRUE,
        !.fn = fn,
        !.listed = Listed(hash_len),
        !.hash_key = hash_key,
        !.sort_key = sort_key,
        !.ttl_seconds = ttl_seconds,
        !.epoch_now = now,
        !.expire_ts_seconds =
            IF fn \in ExpiringForms THEN ExpireTs(ttl_seconds, now) ELSE 0,
        !.routing_key =
            IF Listed(hash_len) THEN RoutingKey(fn, hash_key, sort_key) ELSE <<>>,
        !.partition_hash =
            IF Listed(hash_len)
            THEN pegasus_key_hash(RoutingKey(fn, hash_key, sort_key))
            ELSE 0]

(* the partition-count query: table name only, partition hash 0 *)
MetaRequest == [NoReq EXCEPT !.built = TRUE, !.fn = "async_get_unordered_scanners"]

(* the arguments function fn may be given besides those of the call *)
SortKeysOf(fn) == IF fn \in PointForms THEN SortKeys ELSE {<<>>}

TtlSecondsOf(fn) == IF fn \in ExpiringForms THEN TtlSeconds ELSE {0}

EpochNowsOf(fn) == IF fn \in ExpiringForms THEN EpochNows ELSE {0}

(* the requests function fn may build for call c *)
Requests(fn, c) ==
    IF fn = "async_get_unordered_scanners" THEN {MetaRequest}
    ELSE { BuildRequest(fn, c.hash_len, hk, sk, ttl, now) :
             hk \in HashKeysOfSize(c.hash_len), sk \in SortKeysOf(fn),
             ttl \in TtlSecondsOf(fn), now \in EpochNowsOf(fn) }

(* ------------------------------------------------------------------ *)
(* get_scanner                                                         *)
(* ------------------------------------------------------------------ *)
(* std::min of the two blob lengths *)
std_min(a, b) == IF b < a THEN b ELSE a

(* sign of the first difference among the first n bytes *)
memcmp(a, b, n) ==
    LET diff == {i \in 1..n : a[i] # b[i]}
    IN  IF diff = {} THEN 0
        ELSE LET i == CHOOSE x \in diff : \A y \in diff : x <= y
             IN  IF a[i] < b[i] THEN -1 ELSE 1

ScanStop(hash_key, stop_sort_key) ==
    IF stop_sort_key = <<>>
    THEN pegasus_generate_next_blob(hash_key)
    ELSE pegasus_generate_key(hash_key, stop_sort_key)

EffectiveOptions_keeps_caller_flag(stop_sort_key, options) == options

(* scan_options o(options), stop_inclusive cleared when the stop sort  *)
(* key is empty                                                        *)
EffectiveOptions(stop_sort_key, options) ==
    IF stop_sort_key = <<>>
    THEN [options EXCEPT !.stop_inclusive = FALSE]
    ELSE options

ScanWorkList_equal_always_eligible(start, stop, o) ==
    LET cmp == memcmp(start, stop, std_min(Len(start), Len(stop)))
    IN  IF \/ cmp < 0
           \/ (cmp = 0 /\ Len(start) < Len(stop))
           \/ (cmp = 0 /\ Len(start) = Len(stop))
        THEN <<pegasus_key_hash(start)>>
        ELSE <<>>

(* std::vector<uint64_t> v handed to the scanner *)
ScanWorkList(start, stop, o) ==
    LET cmp == memcmp(start, stop, std_min(Len(start), Len(stop)))
    IN  IF \/ cmp < 0
           \/ (cmp = 0 /\ Len(start) < Len(stop))
           \/ (cmp = 0 /\ Len(start) = Len(stop)
                        /\ o.start_inclusive /\ o.stop_inclusive)
        THEN <<pegasus_key_hash(start)>>
        ELSE <<>>

(* the arguments of get_scanner as the frame holds them *)
ScanArgs(hash_len, hash_key, start_sort_key, stop_sort_key, options) ==
    [NoReq EXCEPT
        !.fn = "get_scanner",
        !.listed = Listed(hash_len),
        !.hash_key = hash_key,
        !.sort_key = start_sort_key,
        !.stop_sort_key = stop_sort_key,
        !.start_inclusive = options.start_inclusive,
        !.stop_inclusive = options.stop_inclusive]

(* ------------------------------------------------------------------ *)
(* The synchronous wrappers' lambda                                    *)
(* ------------------------------------------------------------------ *)
sync_callback_body_notify_first == <<"notify", "assign">>

(* statements of the lambda, in program order: the copies into the     *)
(* captured locations, then op_completed.notify()                      *)
sync_callback_body == <<"assign", "notify">>

HasPayloadOut(fn) ==
    fn \in {"get", "multi_get", "multi_get_sortkeys", "multi_del",
            "get_unordered_scanners"}

(* the caller's output locations after the lambda's copies *)
LambdaAssign(c, args, o) ==
    [payload |-> IF HasPayloadOut(c.fn)
                 THEN [written |-> TRUE, val |-> args.payload]
                 ELSE o.payload,
     info |-> IF c.has_info
              THEN [written |-> TRUE, val |-> args.info]
              ELSE o.info]

Untouched ==
    [payload |-> [written |-> FALSE, val |-> NoPayload],
     info |-> [written |-> FALSE, val |-> PriorInfo]]

NoPr == [first |-> ERR_OK, second |-> NoStorageResponse]

(* a scanner object built by get_scanner *)
NewScanner(listed, v, o, start, stop) ==
    [NoPayload EXCEPT !.scanner =
        [kind |-> "scanner", listed |-> listed, hash |-> v, start |-> start,
         stop |-> stop, start_inclusive |-> o.start_inclusive,
         stop_inclusive |-> o.stop_inclusive]]

(* values an uninitialized `pegasus_scanner *scanner` local may hold *)
IndeterminateScanners ==
    {[NoPayload EXCEPT !.scanner.kind = k] : k \in {"null", "garbage"}}

(* ------------------------------------------------------------------ *)
(* Init                                                                *)
(* ------------------------------------------------------------------ *)
Init ==
    /\ server_error_to_client = <<>>
    /\ pc = "idle"
    /\ call = NoCall
    /\ chain = <<>>
    /\ sent = <<>>
    /\ pending = FALSE
    /\ pr = NoPr
    /\ cbstep = 0
    /\ ret = -1
    /\ notified = FALSE
    /\ out = Untouched
    /\ continuations = <<>>
    /\ tracking_ended = FALSE
    /\ completions = <<>>
    /\ result = <<>>
    /\ req = NoReq

(* ------------------------------------------------------------------ *)
(* Actions of the client thread                                        *)
(* ------------------------------------------------------------------ *)
init_error ==
    /\ pc = "idle"
    /\ server_error_to_client' = init_error_table
    /\ UNCHANGED <<pc, call, chain, sent, pending, pr, cbstep, ret, notified,
                   out, continuations, tracking_ended, completions, result, req>>

(* set, multi_set, get, multi_get, multi_get_sortkeys, del, multi_del, *)
(* get_unordered_scanners: build the lambda, call the async form, then *)
(* reach op_completed.wait()                                           *)
CallSyncWrapper ==
    /\ pc = "idle"
    /\ \E c \in WellFormedCalls :
        /\ c.fn \in SyncWrappers
        /\ LET fn == Last(CallChain(c.fn))
               errs == CheckParams(fn, c)
           IN  /\ call' = c
               /\ chain' = CallChain(c.fn)
               /\ pc' = "wait"
               /\ IF errs # {}
                  THEN LET args == CheckFailureArgs(fn, CHOOSE e \in errs : TRUE)
                       IN  /\ continuations' = <<args>>
                           /\ ret' = args.err
                           /\ out' = LambdaAssign(c, args, out)
                           /\ notified' = TRUE
                           /\ UNCHANGED <<sent, pending, req>>
                  ELSE /\ sent' = <<Rpc(fn)>>
                       /\ pending' = TRUE
                       /\ \E r \in Requests(fn, c) : req' = r
                       /\ UNCHANGED <<continuations, ret, out, notified>>
        /\ UNCHANGED <<server_error_to_client, pr, cbstep, tracking_ended, completions,
                       result>>

(* async_set, ..., async_multi_del, async_get_unordered_scanners       *)
CallAsync ==
    /\ pc = "idle"
    /\ \E c \in WellFormedCalls :
        /\ c.fn \in AsyncRpcForms \cup {"async_get_unordered_scanners"}
        /\ LET errs == CheckParams(c.fn, c)
           IN  /\ call' = c
               /\ chain' = CallChain(c.fn)
               /\ pc' = "returned"
               /\ IF c.fn = "async_get_unordered_scanners" /\ ~c.has_cb
                  THEN UNCHANGED <<continuations, sent, pending, req>>
                  ELSE IF errs # {}
                  THEN /\ continuations' =
                              IF c.has_cb
                              THEN <<CheckFailureArgs(c.fn, CHOOSE e \in errs : TRUE)>>
                              ELSE <<>>
                       /\ UNCHANGED <<sent, pending, req>>
                  ELSE /\ sent' = <<Rpc(c.fn)>>
                       /\ pending' = TRUE
                       /\ \E r \in Requests(c.fn, c) : req' = r
                       /\ UNCHANGED continuations
        /\ UNCHANGED <<server_error_to_client, pr, cbstep, ret, notified, out,
                       tracking_ended, completions, result>>

(* ttl, sortkey_count, and exist (which calls ttl): check, then block  *)
(* inside the transport's ttl_sync / sortkey_count_sync               *)
CallSyncRpc ==
    /\ pc = "idle"
    /\ \E c \in WellFormedCalls :
        /\ c.fn \in SyncRpcForms \cup {"exist"}
        /\ LET fn == Last(CallChain(c.fn))
               errs == CheckParams(fn, c)
           IN  /\ call' = c
               /\ chain' = CallChain(c.fn)
               /\ IF errs # {}
                  THEN /\ pc' = "returned"
                       /\ result' = <<CHOOSE e \in errs : TRUE>>
                       /\ UNCHANGED <<sent, pending, req>>
                  ELSE /\ pc' = "rpc_sync"
                       /\ sent' = <<Rpc(fn)>>
                       /\ pending' = TRUE
                       /\ \E r \in Requests(fn, c) : req' = r
                       /\ UNCHANGED result
        /\ UNCHANGED <<server_error_to_client, pr, cbstep, ret, notified, out,
                       continuations, tracking_ended, completions>>

(* the scanner get_scanner builds from its arguments: listed byte by   *)
(* byte when the hash key is                                           *)
get_scanner(hash_len, hash_key, start_sort_key, stop_sort_key, options) ==
    IF ~Listed(hash_len)
    THEN NewScanner(FALSE, <<>>, EffectiveOptions(stop_sort_key, options), <<>>, <<>>)
    ELSE LET start == pegasus_generate_key(hash_key, start_sort_key)
             stop == ScanStop(hash_key, stop_sort_key)
             o == EffectiveOptions(stop_sort_key, options)
         IN  NewScanner(TRUE, ScanWorkList(start, stop, o), o, start, stop)

(* get_scanner: no request, the scanner is built locally *)
CallGetScanner ==
    /\ pc = "idle"
    /\ \E c \in WellFormedCalls :
        /\ c.fn = "get_scanner"
        /\ LET errs == CheckParams("get_scanner", c)
           IN  /\ call' = c
               /\ chain' = CallChain(c.fn)
               /\ pc' = "returned"
               /\ IF errs # {}
                  THEN /\ result' = <<CHOOSE e \in errs : TRUE>>
                       /\ UNCHANGED <<out, req>>
                  ELSE /\ result' = <<PERR_OK>>
                       /\ \E hk \in HashKeysOfSize(c.hash_len), sk \in SortKeys,
                             tk \in SortKeys, options \in ScanOptions :
                            /\ req' = ScanArgs(c.hash_len, hk, sk, tk, options)
                            /\ out' = [out EXCEPT !.payload =
                                          [written |-> TRUE,
                                           val |-> get_scanner(c.hash_len, hk, sk, tk,
                                                               options)]]
        /\ UNCHANGED <<server_error_to_client, sent, pending, pr, cbstep, ret,
                       notified, continuations, tracking_ended, completions>>

(* async_get_scanner: with a callback, call get_scanner on a local     *)
(* scanner pointer and pass both to the callback; without one, nothing *)
CallAsyncGetScanner ==
    /\ pc = "idle"
    /\ \E c \in WellFormedCalls :
        /\ c.fn = "async_get_scanner"
        /\ call' = c
        /\ pc' = "returned"
        /\ IF ~c.has_cb
           THEN /\ chain' = <<c.fn>>
                /\ UNCHANGED <<continuations, req>>
           ELSE LET errs == CheckParams("get_scanner", c)
                IN  /\ chain' = CallChain(c.fn)
                    /\ IF errs # {}
                       THEN /\ \E s \in IndeterminateScanners :
                                 continuations' =
                                     <<[err |-> CHOOSE e \in errs : TRUE,
                                        payload |-> s, info |-> DefaultInfo]>>
                            /\ UNCHANGED req
                       ELSE \E hk \in HashKeysOfSize(c.hash_len), sk \in SortKeys,
                              tk \in SortKeys, options \in ScanOptions :
                            /\ req' = ScanArgs(c.hash_len, hk, sk, tk, options)
                            /\ continuations' =
                                 <<[err |-> PERR_OK,
                                    payload |-> get_scanner(c.hash_len, hk, sk, tk,
                                                            options),
                                    info |-> DefaultInfo]>>
        /\ UNCHANGED <<server_error_to_client, sent, pending, pr, cbstep, ret,
                       notified, out, tracking_ended, completions, result>>

(* op_completed.wait() returns once notified; the wrapper returns ret *)
SyncWake ==
    /\ pc = "wait"
    /\ notified
    /\ pc' = "returned"
    /\ result' = <<ret>>
    /\ UNCHANGED <<server_error_to_client, call, chain, sent, pending, pr, cbstep,
                   ret, notified, out, continuations, tracking_ended, completions,
                   req>>

(* the info object ttl / sortkey_count leave behind *)
SyncRpcInfo(first, second, o) ==
    IF first = ERR_OK
    THEN [app_id |-> second.app_id, partition_index |-> second.partition_index,
          decree |-> -1, server |-> second.server]
    ELSE [o EXCEPT !.app_id = -1, !.partition_index = -1, !.decree = -1]

(* ttl / sortkey_count after xxx_sync returned pr *)
SyncRpcReturn ==
    /\ pc = "rpc_sync"
    /\ ~pending
    /\ pc' = "returned"
    /\ out' =
         [payload |-> IF pr.first = ERR_OK /\ pr.second.error = 0 /\ call.fn # "exist"
                      THEN [written |-> TRUE,
                            val |-> [NoPayload EXCEPT !.data = pr.second.data]]
                      ELSE out.payload,
          info |-> IF call.has_info
                   THEN [written |-> TRUE,
                         val |-> SyncRpcInfo(pr.first, pr.second, out.info.val)]
                   ELSE out.info]
    /\ result' = <<get_client_error(ServerError(pr.first, pr.second.error))>>
    /\ UNCHANGED <<server_error_to_client, call, chain, sent, pending, pr, cbstep,
                   ret, notified, continuations, tracking_ended, completions, req>>

(* the caller goes on to its next invocation *)
NextCall ==
    /\ pc = "returned"
    /\ ~pending
    /\ cbstep = 0
    /\ pc' = "idle"
    /\ call' = NoCall
    /\ chain' = <<>>
    /\ sent' = <<>>
    /\ pr' = NoPr
    /\ ret' = -1
    /\ notified' = FALSE
    /\ out' = Untouched
    /\ continuations' = <<>>
    /\ tracking_ended' = FALSE
    /\ completions' = <<>>
    /\ result' = <<>>
    /\ req' = NoReq
    /\ UNCHANGED <<server_error_to_client, pending, cbstep>>

(* ------------------------------------------------------------------ *)
(* Actions of the transport thread                                     *)
(* ------------------------------------------------------------------ *)
(* the handler's first test: user_callback == nullptr, on which it     *)
(* calls err.end_tracking() and returns                                *)
user_callback_is_null_unchecked(c) == FALSE

user_callback_is_null(c) == ~c.has_cb

(* completion of put / multi_put / get / multi_get / remove /          *)
(* multi_remove: the new_callback lambda runs up to user_callback      *)
DeliverStorage ==
    /\ pending
    /\ pc # "crashed"
    /\ Last(chain) \in AsyncRpcForms
    /\ \E err \in TransportCodes :
       \E response \in (IF err = ERR_OK THEN StorageResponses ELSE {NoStorageResponse}) :
        /\ pending' = FALSE
        /\ req' = NoReq
        /\ completions' = Append(completions, [first |-> err, second |-> response])
        /\ IF user_callback_is_null(call)
           THEN /\ tracking_ended' = TRUE
                /\ UNCHANGED <<continuations, cbstep>>
           ELSE /\ continuations' =
                       Append(continuations, HandlerArgs(Last(chain), err, response))
                /\ cbstep' = IF call.fn \in SyncWrappers THEN 1 ELSE 0
                /\ UNCHANGED tracking_ended
        /\ UNCHANGED <<server_error_to_client, pc, call, chain, sent, pr, ret,
                       notified, out, result>>

(* ttl_sync / sortkey_count_sync hand their pair back to the caller *)
DeliverSyncRpc ==
    /\ pending
    /\ pc = "rpc_sync"
    /\ \E err \in TransportCodes :
       \E response \in (IF err = ERR_OK THEN StorageResponses ELSE {NoStorageResponse}) :
        /\ pending' = FALSE
        /\ req' = NoReq
        /\ completions' = Append(completions, [first |-> err, second |-> response])
        /\ pr' = [first |-> err, second |-> response]
        /\ UNCHANGED <<server_error_to_client, pc, call, chain, sent, cbstep, ret,
                       notified, out, continuations, tracking_ended, result>>

(* completion of the partition-count query *)
DeliverMeta ==
    /\ pending
    /\ pc # "crashed"
    /\ Last(chain) = "async_get_unordered_scanners"
    /\ \E err \in TransportCodes :
       \E response \in (IF err = ERR_OK THEN MetaResponses ELSE {NoMetaResponse}) :
       \E q \in (IF err = ERR_OK /\ response.err = ERR_OK
                 THEN DivOutcomes(response.partition_count,
                                  Min(response.partition_count, call.max_split_count))
                 ELSE {<<0>>}) :
        /\ pending' = FALSE
        /\ req' = NoReq
        /\ completions' = Append(completions, [first |-> err, second |-> response])
        /\ IF q = <<>>
           THEN /\ pc' = "crashed"
                /\ UNCHANGED <<continuations, cbstep>>
           ELSE /\ continuations' =
                       Append(continuations,
                              MetaHandlerArgs(call.max_split_count, err, response, q[1]))
                /\ cbstep' = IF call.fn \in SyncWrappers THEN 1 ELSE 0
                /\ UNCHANGED pc
        /\ UNCHANGED <<server_error_to_client, call, chain, sent, pr, ret,
                       notified, out, tracking_ended, result>>

(* one statement of the wrapper's lambda, run by the transport thread *)
CallbackStep ==
    /\ cbstep \in 1..Len(sync_callback_body)
    /\ pc # "crashed"
    /\ LET stmt == sync_callback_body[cbstep]
           args == Last(continuations)
       IN  IF stmt = "assign"
           THEN /\ ret' = args.err
                /\ out' = LambdaAssign(call, args, out)
                /\ UNCHANGED notified
           ELSE /\ notified' = TRUE
                /\ UNCHANGED <<ret, out>>
    /\ cbstep' = IF cbstep = Len(sync_callback_body) THEN 0 ELSE cbstep + 1
    /\ UNCHANGED <<server_error_to_client, pc, call, chain, sent, pending, pr,
                   continuations, tracking_ended, completions, result, req>>

Next ==
    \/ init_error
    \/ CallSyncWrapper
    \/ CallAsync
    \/ CallSyncRpc
    \/ CallGetScanner
    \/ CallAsyncGetScanner
    \/ SyncWake
    \/ SyncRpcReturn
    \/ NextCall
    \/ DeliverStorage
    \/ DeliverSyncRpc
    \/ DeliverMeta
    \/ CallbackStep

Spec == Init /\ [][Next]_vars

(* ------------------------------------------------------------------ *)
(* Properties                                                          *)
(* ------------------------------------------------------------------ *)
(* the invocation in progress reports error e: a synchronous function  *)
(* returns it (or is about to: notified with ret = e), an asynchronous *)
(* one has passed it to the continuation it was given                  *)
Reports(e) ==
    IF call.fn \in AsyncForms
    THEN call.has_cb => (Len(continuations) = 1 /\ continuations[1].err = e)
    ELSE \/ pc = "returned" /\ result = <<e>>
         \/ pc = "wait" /\ notified /\ ret = e /\ continuations # <<>>
                        /\ continuations[1].err = e

(* the invocation in progress reported e nowhere *)
NeverReports(e) ==
    /\ result # <<e>>
    /\ \A i \in 1..Len(continuations) : continuations[i].err # e

NoRequest == sent = <<>> /\ ~pending /\ completions = <<>>

OneRequest == Len(sent) = 1

HashKeyFunctions == {f \in PublicFunctions : TakesHashKey(f)}

PointFunctions == {"set", "async_set", "get", "async_get", "del", "async_del"}

GroupFunctions ==
    {"multi_set", "async_multi_set", "multi_get", "async_multi_get",
     "multi_get_sortkeys", "async_multi_get_sortkeys", "multi_del",
     "async_multi_del", "sortkey_count"}

(* C1: every function taking a hash key, called with a hash key of     *)
(* 65536 bytes or more, reports InvalidHashKey and hands no request to *)
(* the transport.                                                      *)
C1_OverlongHashKeyRejected ==
    (call.fn \in HashKeyFunctions /\ call.hash_len >= 65536)
        => (Reports(PERR_INVALID_HASH_KEY) /\ NoRequest)

C1_Witness ==
    /\ call.fn = "set"
    /\ call.hash_len >= 65536
    /\ pc = "returned"
    /\ result = <<PERR_INVALID_HASH_KEY>>
    /\ sent = <<>>

(* C2 as stated: set, get and del accept every hash key shorter than   *)
(* 65536 bytes (one request, no InvalidHashKey).                       *)
C2_AcceptsBelow65536 ==
    (call.fn \in PointFunctions /\ call.hash_len < 65536)
        => (OneRequest /\ NeverReports(PERR_INVALID_HASH_KEY))

(* C2 amended: set, get and del accept exactly the hash keys shorter   *)
(* than 65535 bytes (the empty one and one of 65534 bytes included):   *)
(* those get one request and no InvalidHashKey, every longer one       *)
(* (65535 included) gets InvalidHashKey and no request.                *)
C2_AcceptsExactlyBelow65535 ==
    call.fn \in PointFunctions
        => IF call.hash_len < 65535
           THEN OneRequest /\ NeverReports(PERR_INVALID_HASH_KEY)
           ELSE Reports(PERR_INVALID_HASH_KEY) /\ NoRequest

C2_Witness ==
    /\ call.fn = "get"
    /\ call.hash_len = 65534
    /\ sent = <<"get">>
    /\ pc = "returned"
    /\ result = <<PERR_OK>>

(* C3: multi_set, multi_get, multi_get_sortkeys, multi_del and         *)
(* sortkey_count with an empty hash key report InvalidHashKey at once  *)
(* and hand no request to the transport, whatever the other arguments. *)
C3_EmptyHashKeyRejectedByGroupOps ==
    (call.fn \in GroupFunctions /\ call.hash_len = 0)
        => (Reports(PERR_INVALID_HASH_KEY) /\ NoRequest)

C3_Witness ==
    /\ call.fn = "multi_get"
    /\ call.hash_len = 0
    /\ ~call.coll_empty
    /\ pc = "returned"
    /\ result = <<PERR_INVALID_HASH_KEY>>
    /\ sent = <<>>

(* C4 as stated: ttl and exist with an empty hash key report           *)
(* InvalidHashKey and hand no request to the transport.                *)
C4_TtlRejectsEmptyHashKey ==
    (call.fn \in {"ttl", "exist"} /\ call.hash_len = 0)
        => (Reports(PERR_INVALID_HASH_KEY) /\ NoRequest)

(* C4 amended: ttl and exist do not reject an empty hash key: the      *)
(* check passes, one ttl request is handed to the transport and        *)
(* InvalidHashKey is not reported.                                     *)
C4_TtlAcceptsEmptyHashKey ==
    (call.fn \in {"ttl", "exist"} /\ call.hash_len = 0)
        => (sent = <<"ttl_sync">> /\ NeverReports(PERR_INVALID_HASH_KEY))

C4_Witness ==
    /\ call.fn = "exist"
    /\ call.hash_len = 0
    /\ sent = <<"ttl_sync">>
    /\ pc = "returned"
    /\ result = <<PERR_OK>>

(* C5: with a non-empty hash key that passes the length check,         *)
(* multi_set with no key-value pair and multi_del with no sort key     *)
(* report InvalidValue before returning and hand no request to the     *)
(* transport.                                                          *)
C5_EmptyCollectionRejected ==
    (/\ call.fn \in {"multi_set", "async_multi_set", "multi_del", "async_multi_del"}
     /\ call.hash_len >= 1
     /\ call.hash_len < UINT16_MAX
     /\ call.coll_empty)
        => (Reports(PERR_INVALID_VALUE) /\ NoRequest)

C5_Witness ==
    /\ call.fn = "async_multi_del"
    /\ call.has_cb
    /\ call.hash_len = 1
    /\ call.coll_empty
    /\ pc = "returned"
    /\ continuations =
          <<[err |-> PERR_INVALID_VALUE, payload |-> NoPayload, info |-> DefaultInfo]>>
    /\ sent = <<>>

(* the asynchronous form a synchronous function would be built on *)
AsyncFormOf(fn) ==
    CASE fn = "set" -> "async_set"
      [] fn = "multi_set" -> "async_multi_set"
      [] fn = "get" -> "async_get"
      [] fn = "multi_get" -> "async_multi_get"
      [] fn = "multi_get_sortkeys" -> "async_multi_get_sortkeys"
      [] fn = "del" -> "async_del"
      [] fn = "multi_del" -> "async_multi_del"
      [] fn = "ttl" -> "async_ttl"
      [] fn = "exist" -> "async_exist"
      [] fn = "sortkey_count" -> "async_sortkey_count"
      [] fn = "get_scanner" -> "async_get_scanner"
      [] fn = "get_unordered_scanners" -> "async_get_unordered_scanners"

IsAsyncName(fn) ==
    fn \in AsyncForms \cup {"async_ttl", "async_exist", "async_sortkey_count"}

Invoked == call.fn # "none"

(* C6 as stated: every synchronous public function is built on its     *)
(* asynchronous form (its body enters exactly that form), and no       *)
(* asynchronous form enters a synchronous function.                    *)
C6_EverySyncFormOnItsAsyncForm ==
    Invoked =>
        IF IsAsyncName(call.fn)
        THEN \A i \in 1..Len(chain) : IsAsyncName(chain[i])
        ELSE chain = <<call.fn, AsyncFormOf(call.fn)>>

(* C6 amended: set, multi_set, get, multi_get, multi_get_sortkeys,     *)
(* del, multi_del and get_unordered_scanners are their asynchronous    *)
(* form plus one notify/wait block (they return ret only once          *)
(* notified), and those asynchronous forms enter no other member       *)
(* function; ttl, sortkey_count and exist have no asynchronous form    *)
(* (exist calls ttl; both block in the transport's xxx_sync call and   *)
(* use no notify/wait); get_scanner issues no request and              *)
(* async_get_scanner is built on the synchronous get_scanner.          *)
C6_SyncFormsOnAsyncFormsExceptTtlCountScanner ==
    Invoked =>
        /\ call.fn \in SyncWrappers =>
              /\ chain = <<call.fn, AsyncFormOf(call.fn)>>
              /\ pc \in {"wait", "returned", "crashed"}
              /\ (pc = "returned" => notified /\ result = <<ret>>)
        /\ call.fn \in AsyncRpcForms \cup {"async_get_unordered_scanners"} =>
              chain = <<call.fn>>
        /\ call.fn \in SyncRpcForms =>
              /\ chain = <<call.fn>>
              /\ ~notified
              /\ sent \in {<<>>, <<"ttl_sync">>, <<"sortkey_count_sync">>}
        /\ call.fn = "exist" =>
              (chain = <<"exist", "ttl">> /\ ~notified /\ sent \in {<<>>, <<"ttl_sync">>})
        /\ call.fn = "get_scanner" => (chain = <<"get_scanner">> /\ sent = <<>>)
        /\ (call.fn = "async_get_scanner" /\ call.has_cb) =>
              (chain = <<"async_get_scanner", "get_scanner">> /\ sent = <<>>)

C6_Witness ==
    /\ call.fn = "multi_get"
    /\ chain = <<"multi_get", "async_multi_get">>
    /\ completions # <<>>
    /\ pc = "returned"
    /\ notified

(* C7: a synchronous wrapper that has returned did so after its        *)
(* continuation ran (once, to its end), and the code it returned and   *)
(* the outputs it filled are the arguments of that continuation.       *)
C7_SyncReturnsWhatContinuationGot ==
    (call.fn \in SyncWrappers /\ pc = "returned") =>
        /\ Len(continuations) = 1
        /\ cbstep = 0
        /\ result = <<continuations[1].err>>
        /\ (HasPayloadOut(call.fn) =>
               out.payload = [written |-> TRUE, val |-> continuations[1].payload])
        /\ (call.has_info =>
               out.info = [written |-> TRUE, val |-> continuations[1].info])

C7_Witness ==
    /\ call.fn = "multi_del"
    /\ call.has_info
    /\ pc = "returned"
    /\ completions # <<>>
    /\ completions[1].first = ERR_OK
    /\ completions[1].second.error = 0
    /\ result = <<PERR_OK>>
    /\ out.payload.written
    /\ out.payload.val.data = completions[1].second.data
    /\ out.info.val.decree = completions[1].second.decree

(* the client and transport threads keep running, and the transport    *)
(* completes every request it was handed                               *)
LiveSpec ==
    /\ Spec
    /\ WF_vars(SyncWake)
    /\ WF_vars(SyncRpcReturn)
    /\ WF_vars(CallbackStep)
    /\ WF_vars(DeliverStorage)
    /\ WF_vars(DeliverSyncRpc)
    /\ WF_vars(DeliverMeta)

(* C8: every synchronous wrapper that reached op_completed.wait()      *)
(* eventually returns, given that the transport completes its request. *)
C8_SyncCallEventuallyReturns ==
    (call.fn \in SyncWrappers /\ pc = "wait") ~> (pc = "returned")

(* the table has been built by init_error *)
Initialized == DOMAIN server_error_to_client # {}

(* the code the handler of the invocation passes to get_client_error   *)
(* for completion cp                                                   *)
CompletionCode(cp) ==
    IF cp.first # ERR_OK THEN cp.first
    ELSE IF Last(chain) = "async_get_unordered_scanners" THEN cp.second.err
    ELSE get_rocksdb_server_error(cp.second.error)

(* the client error the invocation derived from its completion: <<>>   *)
(* while (or when) none is delivered to the caller                     *)
Translated ==
    IF completions = <<>> THEN <<>>
    ELSE IF Last(chain) \in SyncRpcForms
         THEN (IF pc = "returned" THEN result ELSE <<>>)
         ELSE (IF continuations # <<>> THEN <<continuations[1].err>> ELSE <<>>)

(* C9: with the table initialized, translation is total: the pair      *)
(* (Ok, 0) yields Ok, a code the table holds yields the table's entry, *)
(* and a code absent from the table yields Unknown; the translation    *)
(* itself never stops the client.                                      *)
C9_TranslationTotal ==
    (Initialized /\ Translated # <<>>) =>
        LET cp == completions[1]
            code == CompletionCode(cp)
        IN  /\ Len(Translated) = 1
            /\ (cp.first = ERR_OK /\ Last(chain) \in AsyncRpcForms \cup SyncRpcForms
                    /\ cp.second.error = 0) => Translated[1] = PERR_OK
            /\ code \in DOMAIN init_error_table => Translated[1] = init_error_table[code]
            /\ code \notin DOMAIN init_error_table => Translated[1] = PERR_UNKNOWN
            /\ Last(chain) \in AsyncRpcForms \cup SyncRpcForms => pc # "crashed"

C9_Witness ==
    /\ Initialized
    /\ call.fn = "get"
    /\ completions # <<>>
    /\ completions[1].first = ERR_BUSY
    /\ pc = "returned"
    /\ result = <<PERR_UNKNOWN>>

(* client codes the table assigns to transport failures *)
TransportClientCodes ==
    {PERR_TIMEOUT, PERR_SERVER_INTERNAL_ERROR, PERR_SERVER_CHANGED,
     PERR_OBJECT_NOT_FOUND, PERR_NETWORK_FAILURE, PERR_HANDLER_NOT_FOUND,
     PERR_APP_NOT_EXIST, PERR_APP_EXIST}

StorageCompletion ==
    /\ Initialized
    /\ Translated # <<>>
    /\ Last(chain) \in AsyncRpcForms \cup SyncRpcForms
    /\ completions[1].first = ERR_OK

(* C10: when the transport succeeds, every non-zero storage            *)
(* status, of any sign or magnitude, yields neither Ok nor a client    *)
(* code that a transport error maps to.                                *)
C10_NonZeroStatusNeverOkNorTransportCode ==
    (StorageCompletion /\ completions[1].second.error # 0) =>
        Translated[1] \notin {PERR_OK} \cup TransportClientCodes

(* what the code does guarantee: status 0 yields Ok, and a positive    *)
(* storage status k becomes -1000 - k (32-bit arithmetic), which is    *)
(* the table's entry for 1 <= k <= 12 and Unknown otherwise            *)
PositiveStatusRemapped ==
    StorageCompletion =>
        LET k == completions[1].second.error
        IN  /\ k = 0 => Translated[1] = PERR_OK
            /\ k > 0 =>
                 /\ Translated[1] \notin {PERR_OK} \cup TransportClientCodes
                 /\ (k \in 1..12 => Translated[1] = (-1000) - k)
                 /\ (k \notin 1..12 => Translated[1] = PERR_UNKNOWN)

(* apart from the faulting split computation of                        *)
(* async_get_unordered_scanners, a waiting wrapper always returns      *)
SyncCallReturnsOrFaults ==
    (call.fn \in SyncWrappers /\ pc = "wait") ~> (pc \in {"returned", "crashed"})

(* the client code a storage status yields when the transport succeeds *)
ClientErrorOfStatus(k) == get_client_error(get_rocksdb_server_error(k))

(* C11 as stated: the client code a non-zero storage status was        *)
(* translated to is the code of no other non-zero status, and a known  *)
(* status k (1 <= k <= 12) was translated to -1000 - k.                *)
C11_NonZeroStatusesNeverCollide ==
    (StorageCompletion /\ completions[1].second.error # 0) =>
        LET k == completions[1].second.error
        IN  /\ (k \in 1..12 => Translated[1] = (-1000) - k)
            /\ \A k2 \in StorageStatuses \ {0, k} :
                   ClientErrorOfStatus(k2) # Translated[1]

(* C11 amended: a known status k (1 <= k <= 12) is translated to       *)
(* -1000 - k, which is the code of no other known status; the positive *)
(* statuses the table does not hold are not kept apart, they all yield *)
(* Unknown.                                                            *)
C11_KnownStatusesNeverCollide ==
    (StorageCompletion /\ completions[1].second.error > 0) =>
        LET k == completions[1].second.error
        IN  /\ (k \in 1..12 =>
                   /\ Translated[1] = (-1000) - k
                   /\ \A k2 \in (1..12) \ {k} :
                          ClientErrorOfStatus(k2) # Translated[1])
            /\ (k \notin 1..12 => Translated[1] = PERR_UNKNOWN)

C11_Witness ==
    /\ StorageCompletion
    /\ call.fn = "set"
    /\ completions[1].second.error = 12
    /\ pc = "returned"
    /\ result = <<-1012>>
    /\ ClientErrorOfStatus(11) = -1011

(* the client code the table assigns to a failed transport code *)
ExpectedTransportTranslation(err) ==
    CASE err = ERR_TIMEOUT -> PERR_TIMEOUT
      [] err = ERR_NETWORK_FAILURE -> PERR_NETWORK_FAILURE
      [] err = ERR_HANDLER_NOT_FOUND -> PERR_HANDLER_NOT_FOUND
      [] err = ERR_APP_NOT_EXIST -> PERR_APP_NOT_EXIST
      [] err = ERR_APP_EXIST -> PERR_APP_EXIST
      [] err = ERR_OBJECT_NOT_FOUND -> PERR_OBJECT_NOT_FOUND
      [] err = ERR_FILE_OPERATION_FAILED -> PERR_SERVER_INTERNAL_ERROR
      [] err = ERR_INVALID_STATE -> PERR_SERVER_CHANGED
      [] OTHER -> PERR_UNKNOWN

(* C12: with the table initialized, a request the transport failed     *)
(* with code err reports the table's client code for err, and Unknown  *)
(* when err is none of the eight codes of the table.                   *)
C12_TransportFailureTranslatedByTable ==
    (Initialized /\ Translated # <<>> /\ completions[1].first # ERR_OK) =>
        Translated[1] = ExpectedTransportTranslation(completions[1].first)

C12_Witness ==
    /\ Initialized
    /\ call.fn = "multi_get"
    /\ completions # <<>>
    /\ completions[1].first = ERR_INVALID_STATE
    /\ pc = "returned"
    /\ result = <<PERR_SERVER_CHANGED>>

(* ------------------------------------------------------------------ *)
(* Split scanners                                                      *)
(* ------------------------------------------------------------------ *)
SplitFunctions == {"get_unordered_scanners", "async_get_unordered_scanners"}

(* the partition-count query of the invocation completed and its       *)
(* handler called the continuation                                     *)
SplitDelivered ==
    /\ call.fn \in SplitFunctions
    /\ completions # <<>>
    /\ continuations # <<>>

(* ... with both statuses Ok *)
SplitSucceeded ==
    /\ SplitDelivered
    /\ completions[1].first = ERR_OK
    /\ completions[1].second.err = ERR_OK

GroupSet(g) == {g[j] : j \in DOMAIN g}

RECURSIVE SumLen(_)
SumLen(ss) == IF ss = <<>> THEN 0 ELSE Len(ss[1]) + SumLen(Tail(ss))

(* C13: with 1 <= n <= P, the groups handed to the continuation are    *)
(* pairwise disjoint, list every index of 0..P-1 exactly once, and     *)
(* their sizes differ by at most one.                                  *)
C13_GroupsPartitionTheIndexRange ==
    (SplitSucceeded /\ call.max_split_count >= 1
        /\ call.max_split_count <= completions[1].second.partition_count) =>
        LET P == completions[1].second.partition_count
            ss == continuations[1].payload.scanners
        IN  /\ \A a, b \in DOMAIN ss :
                   a # b => GroupSet(ss[a]) \cap GroupSet(ss[b]) = {}
            /\ UNION {GroupSet(ss[a]) : a \in DOMAIN ss} = 0..(P - 1)
            /\ SumLen(ss) = P
            /\ \A a, b \in DOMAIN ss : Len(ss[a]) - Len(ss[b]) <= 1

C13_Witness ==
    /\ SplitSucceeded
    /\ call.fn = "get_unordered_scanners"
    /\ call.max_split_count = 4
    /\ completions[1].second.partition_count = 10
    /\ pc = "returned"
    /\ result = <<get_client_error(ERR_OK)>>
    /\ Len(out.payload.val.scanners) = 4
    /\ Len(out.payload.val.scanners[1]) = 3
    /\ Len(out.payload.val.scanners[2]) = 3
    /\ Len(out.payload.val.scanners[3]) = 2
    /\ Len(out.payload.val.scanners[4]) = 2

(* the indices of g form one run without gaps or repeats *)
ContiguousRun(g) ==
    /\ Len(g) >= 1
    /\ Cardinality(GroupSet(g)) = Len(g)
    /\ \E lo \in GroupSet(g) : GroupSet(g) = lo..(lo + Len(g) - 1)

(* C14: with n >= 1 and P >= 1 the continuation gets exactly min(n, P) *)
(* scanners, each a non-empty contiguous run of indices, and exactly   *)
(* the first P mod min(n, P) of them hold one index more than the rest *)
C14_MinSplitScannersFirstOnesLarger ==
    (SplitSucceeded /\ call.max_split_count >= 1
        /\ completions[1].second.partition_count >= 1) =>
        LET P == completions[1].second.partition_count
            n == call.max_split_count
            m == IF n < P THEN n ELSE P
            ss == continuations[1].payload.scanners
        IN  /\ Len(ss) = m
            /\ \A i \in 1..Len(ss) :
                   /\ ContiguousRun(ss[i])
                   /\ Len(ss[i]) = (P \div m) + (IF i <= P % m THEN 1 ELSE 0)

C14_Witness ==
    /\ SplitSucceeded
    /\ call.fn = "async_get_unordered_scanners"
    /\ call.max_split_count = 4
    /\ completions[1].second.partition_count = 3
    /\ Len(continuations[1].payload.scanners) = 3
    /\ continuations[1].payload.scanners[1] = <<2>>
    /\ continuations[1].payload.scanners[3] = <<0>>

(* C15: a split count of zero or less is reported as InvalidSplitCount *)
(* with zero scanners, and no partition-count query is handed to the   *)
(* transport.                                                          *)
C15_NonPositiveSplitCountRejected ==
    (call.fn \in SplitFunctions /\ call.max_split_count <= 0) =>
        /\ Reports(PERR_INVALID_SPLIT_COUNT)
        /\ NoRequest
        /\ \A i \in 1..Len(continuations) :
               continuations[i].payload.scanners = <<>>
        /\ (pc = "returned" /\ call.fn = "get_unordered_scanners") =>
               (out.payload.written /\ out.payload.val.scanners = <<>>)

C15_Witness ==
    /\ call.fn = "get_unordered_scanners"
    /\ call.max_split_count = 0
    /\ pc = "returned"
    /\ result = <<PERR_INVALID_SPLIT_COUNT>>
    /\ out.payload.written
    /\ out.payload.val.scanners = <<>>
    /\ sent = <<>>

(* C16: a partition-count query that failed, at the transport or with  *)
(* a non-Ok status in its response, delivers the translated error with *)
(* zero scanners; scanners are delivered only when both are Ok.        *)
C16_MetaFailureGivesErrorAndNoScanners ==
    SplitDelivered =>
        LET cp == completions[1]
            a == continuations[1]
            code == IF cp.first # ERR_OK THEN cp.first ELSE cp.second.err
        IN  /\ (cp.first # ERR_OK \/ cp.second.err # ERR_OK) =>
                   /\ a.payload.scanners = <<>>
                   /\ (Initialized =>
                          /\ a.err = (IF code \in DOMAIN init_error_table
                                       THEN init_error_table[code]
                                       ELSE PERR_UNKNOWN)
                          /\ a.err # PERR_OK)
                   /\ (pc = "returned" /\ call.fn = "get_unordered_scanners") =>
                          (result = <<a.err>> /\ out.payload.val.scanners = <<>>)
            /\ (a.payload.scanners # <<>> =>
                   (cp.first = ERR_OK /\ cp.second.err = ERR_OK))

C16_Witness ==
    /\ SplitDelivered
    /\ Initialized
    /\ call.fn = "get_unordered_scanners"
    /\ completions[1].first = ERR_OK
    /\ completions[1].second.err = ERR_OBJECT_NOT_FOUND
    /\ completions[1].second.partition_count = 3
    /\ pc = "returned"
    /\ result = <<PERR_OBJECT_NOT_FOUND>>
    /\ out.payload.written
    /\ out.payload.val.scanners = <<>>

(* ------------------------------------------------------------------ *)
(* Range scanners                                                      *)
(* ------------------------------------------------------------------ *)
ScanFunctions == {"get_scanner", "async_get_scanner"}

(* get_scanner ran its body on a hash key that passes its check *)
ScannerBuilt ==
    /\ call.fn \in ScanFunctions
    /\ pc = "returned"
    /\ (call.fn = "async_get_scanner" => call.has_cb)
    /\ call.hash_len >= 1
    /\ call.hash_len < UINT16_MAX

(* what the caller (or its callback) received *)
ScanResult ==
    IF call.fn = "get_scanner" THEN result ELSE <<continuations[1].err>>

BuiltScanner ==
    IF call.fn = "get_scanner"
    THEN out.payload.val.scanner
    ELSE continuations[1].payload.scanner

(* a is below b in byte-wise lexicographic order *)
LexLess(a, b) ==
    \E k \in 0..(IF Len(a) < Len(b) THEN Len(a) ELSE Len(b)) :
        /\ \A i \in 1..k : a[i] = b[i]
        /\ \/ (k = Len(a) /\ k < Len(b))
           \/ (k < Len(a) /\ k < Len(b) /\ a[k + 1] < b[k + 1])

(* C17: get_scanner on a hash key that passes its check returns Ok,    *)
(* and the scanner's work list is the partition hash of the start key  *)
(* alone when start < stop byte-wise or start = stop with both bounds  *)
(* inclusive, and empty in every other case.                           *)
C17_WorkListOneEntryIffRangeNonEmpty ==
    ScannerBuilt =>
        LET sc == BuiltScanner
        IN  /\ ScanResult = <<PERR_OK>>
            /\ sc.kind = "scanner"
            /\ sc.listed =>
                  sc.hash =
                     IF \/ LexLess(sc.start, sc.stop)
                        \/ (sc.start = sc.stop /\ sc.start_inclusive
                                               /\ sc.stop_inclusive)
                     THEN <<pegasus_key_hash(sc.start)>>
                     ELSE <<>>

C17_Witness ==
    /\ ScannerBuilt
    /\ call.fn = "get_scanner"
    /\ result = <<PERR_OK>>
    /\ BuiltScanner.listed
    /\ BuiltScanner.start = BuiltScanner.stop
    /\ BuiltScanner.start_inclusive
    /\ ~BuiltScanner.stop_inclusive
    /\ BuiltScanner.hash = <<>>

(* C18: the scanner's stop bound is the successor of the hash key and  *)
(* exclusive when the caller's stop sort key is empty, and the encoded *)
(* (hash key, stop sort key) with the caller's stop_inclusive          *)
(* otherwise; its start bound and start_inclusive are the caller's.    *)
C18_StopBoundDefaultsToSuccessorExclusive ==
    ScannerBuilt =>
        LET sc == BuiltScanner
        IN  /\ sc.start_inclusive = req.start_inclusive
            /\ sc.stop_inclusive =
                  (IF req.stop_sort_key = <<>> THEN FALSE ELSE req.stop_inclusive)
            /\ sc.listed =>
                  /\ sc.start = pegasus_generate_key(req.hash_key, req.sort_key)
                  /\ sc.stop =
                        IF req.stop_sort_key = <<>>
                        THEN pegasus_generate_next_blob(req.hash_key)
                        ELSE pegasus_generate_key(req.hash_key, req.stop_sort_key)

C18_Witness ==
    /\ ScannerBuilt
    /\ call.fn = "get_scanner"
    /\ req.hash_key = <<255>>
    /\ req.stop_sort_key = <<>>
    /\ req.stop_inclusive
    /\ ~BuiltScanner.stop_inclusive
    /\ BuiltScanner.stop = <<0, 2>>
    /\ BuiltScanner.hash # <<>>

(* ------------------------------------------------------------------ *)
(* Requests                                                            *)
(* ------------------------------------------------------------------ *)
(* a request of a storage function is at the transport, built from a   *)
(* hash key listed byte by byte                                        *)
StorageRequestOut ==
    /\ req.built
    /\ req.listed
    /\ req.fn \in AsyncRpcForms \cup SyncRpcForms

ExpirationIsNowPlusTtlWhenRepresentable ==
    (req.built /\ req.fn \in ExpiringForms) =>
        /\ (req.ttl_seconds = 0 => req.expire_ts_seconds = 0)
        /\ (req.ttl_seconds # 0 /\ req.ttl_seconds <= INT_MAX - req.epoch_now) =>
               req.expire_ts_seconds = req.epoch_now + req.ttl_seconds


(* ------------------------------------------------------------------ *)
(* Requests per invocation                                             *)
(* ------------------------------------------------------------------ *)
(* the arguments of invocation c pass the parameter check of fn, said  *)
(* in terms of the arguments alone                                     *)
ArgsValid(fn, c) ==
    CASE fn \in {"async_set", "async_get", "async_del", "ttl"} ->
             c.hash_len < 65535
      [] fn \in {"async_multi_set", "async_multi_del"} ->
             c.hash_len >= 1 /\ c.hash_len < 65535 /\ ~c.coll_empty
      [] fn \in {"async_multi_get", "async_multi_get_sortkeys", "sortkey_count",
                 "get_scanner", "async_get_scanner"} ->
             c.hash_len >= 1 /\ c.hash_len < 65535
      [] fn = "async_get_unordered_scanners" -> c.max_split_count >= 1
      [] OTHER -> FALSE

(* the function of the invocation that checks the parameters *)
Checker == Last(chain)

(* C21 as stated: an invocation hands the transport at most one        *)
(* request, exactly one when its arguments pass the parameter check    *)
(* and none when they fail it, and one completion at most comes back,  *)
(* after which nothing is outstanding.                                 *)
C21_OneRequestIffValidationPasses ==
    Invoked =>
        /\ Len(sent) <= 1
        /\ Len(completions) <= 1
        /\ (ArgsValid(Checker, call) => Len(sent) = 1)
        /\ (~ArgsValid(Checker, call) => sent = <<>> /\ ~pending)
        /\ (completions # <<>> => Len(sent) = 1 /\ ~pending)

(* the invocations that talk to the transport at all: get_scanner and  *)
(* async_get_scanner build their scanner locally, and                  *)
(* async_get_unordered_scanners returns at once without a continuation *)
TalksToTransport ==
    /\ Checker \notin {"get_scanner", "async_get_scanner"}
    /\ ~(call.fn = "async_get_unordered_scanners" /\ ~call.has_cb)

(* C21 amended: an invocation hands the transport at most one request: *)
(* exactly one when its arguments pass the parameter check and it is   *)
(* an invocation that talks to the transport, none otherwise; at most  *)
(* one completion comes back, whatever it carries, and after it no     *)
(* request is outstanding or issued.                                   *)
C21_OneRequestIffValidTransportCall ==
    Invoked =>
        /\ Len(sent) <= 1
        /\ Len(completions) <= 1
        /\ ((ArgsValid(Checker, call) /\ TalksToTransport) =>
               /\ sent = <<Rpc(Checker)>>
               /\ (completions = <<>> => pending))
        /\ (~(ArgsValid(Checker, call) /\ TalksToTransport) => NoRequest)
        /\ (completions # <<>> => Len(sent) = 1 /\ ~pending)

(* a failed completion has come back and the invocation has returned:  *)
(* its one request was not repeated                                    *)
C21_Witness ==
    /\ call.fn = "set"
    /\ pc = "returned"
    /\ Len(completions) = 1
    /\ completions[1].first = ERR_TIMEOUT
    /\ sent = <<Rpc("async_set")>>
    /\ ~pending

(* C22: an asynchronous storage function called without a continuation *)
(* and with valid arguments still issues its request; its completion,  *)
(* successful or not, ends the tracking of the error and does nothing  *)
(* else: no continuation runs and no output is written.                *)
C22_NoContinuationStillSendsAndEndsTracking ==
    (call.fn \in AsyncRpcForms /\ ~call.has_cb /\ ArgsValid(call.fn, call)) =>
        /\ sent = <<Rpc(call.fn)>>
        /\ continuations = <<>>
        /\ cbstep = 0
        /\ out = Untouched
        /\ result = <<>>
        /\ (completions = <<>> => pending /\ ~tracking_ended)
        /\ (completions # <<>> => tracking_ended /\ ~pending)

C22_Witness ==
    /\ call.fn = "async_multi_del"
    /\ ~call.has_cb
    /\ completions # <<>>
    /\ completions[1].first = ERR_NETWORK_FAILURE
    /\ tracking_ended
    /\ continuations = <<>>

C22_WitnessSuccess ==
    /\ call.fn = "async_get"
    /\ ~call.has_cb
    /\ completions # <<>>
    /\ completions[1].first = ERR_OK
    /\ completions[1].second.error = 0
    /\ tracking_ended
    /\ continuations = <<>>


(* ------------------------------------------------------------------ *)
(* Effects of a failed parameter check                                 *)
(* ------------------------------------------------------------------ *)
(* the invocation's arguments fail the parameter check it reaches *)
ValidationFailed ==
    /\ Invoked
    /\ ~ArgsValid(Checker, call)
    /\ ~(call.fn \in AsyncForms /\ ~call.has_cb /\ Checker \notin AsyncRpcForms)

ValidationErrors ==
    {PERR_INVALID_HASH_KEY, PERR_INVALID_VALUE, PERR_INVALID_SPLIT_COUNT}

(* C23 as stated: a failed parameter check reports its error code,     *)
(* issues no request and leaves every output location of the caller    *)
(* (value, values, sort_keys, deleted_count, count, ttl_seconds, info, *)
(* scanner, scanners) as it was before the call.                       *)
C23_ValidationFailureTouchesNothing ==
    ValidationFailed =>
        /\ NoRequest
        /\ (result # <<>> => result[1] \in ValidationErrors)
        /\ out = Untouched

(* what the lambda of a synchronous wrapper leaves in the caller's     *)
(* output locations after a failed parameter check                     *)
EmptiedOutputs ==
    [payload |-> IF HasPayloadOut(call.fn)
                 THEN [written |-> TRUE, val |-> NoPayload]
                 ELSE Untouched.payload,
     info |-> IF call.has_info
              THEN [written |-> TRUE, val |-> DefaultInfo]
              ELSE Untouched.info]

(* C23 amended: a failed parameter check reports its error code and    *)
(* issues no request. sortkey_count, ttl, exist, get_scanner and the   *)
(* asynchronous forms leave every output location of the caller as it  *)
(* was; the synchronous wrappers set, multi_set, get, multi_get,       *)
(* multi_get_sortkeys, del, multi_del and get_unordered_scanners       *)
(* overwrite their payload output with the empty value and, when the   *)
(* caller passed an info object, that object with the default          *)
(* envelope.                                                           *)
C23_ValidationFailureSendsNothingWrappersEmptyOutputs ==
    ValidationFailed =>
        /\ NoRequest
        /\ (result # <<>> => result[1] \in ValidationErrors)
        /\ (pc = "returned" => result # <<>> \/ call.fn \in AsyncForms)
        /\ (call.fn \notin SyncWrappers => out = Untouched)
        /\ (call.fn \in SyncWrappers => out = EmptiedOutputs)

(* multi_del with an empty hash key has returned: no request, and      *)
(* deleted_count and the info object were overwritten                  *)
C23_Witness ==
    /\ ValidationFailed
    /\ call.fn = "multi_del"
    /\ call.hash_len = 0
    /\ call.has_info
    /\ pc = "returned"
    /\ result = <<PERR_INVALID_HASH_KEY>>
    /\ NoRequest
    /\ out.payload.written
    /\ out.info = [written |-> TRUE, val |-> DefaultInfo]

(* sortkey_count with an empty hash key has returned with count and    *)
(* info as they were                                                   *)
C23_WitnessUntouched ==
    /\ ValidationFailed
    /\ call.fn = "sortkey_count"
    /\ call.hash_len = 0
    /\ call.has_info
    /\ pc = "returned"
    /\ result = <<PERR_INVALID_HASH_KEY>>
    /\ out = Untouched


(* ------------------------------------------------------------------ *)
(* Transport failure                                                   *)
(* ------------------------------------------------------------------ *)
(* the completion of the invocation carries a transport error *)
TransportFailed ==
    /\ completions # <<>>
    /\ completions[1].first # ERR_OK

(* what a continuation receives on a transport failure: the            *)
(* translation of the transport code, an empty payload, the default    *)
(* envelope                                                            *)
TransportFailureArgs ==
    [err |-> get_client_error(completions[1].first),
     payload |-> NoPayload,
     info |-> DefaultInfo]

(* the continuations of the storage functions and of the split query   *)
(* receive exactly that, and a wrapper hands it on to its caller       *)
TransportFailureInHandlersGivesDefaults ==
    (TransportFailed /\ Checker \notin SyncRpcForms) =>
        /\ (continuations # <<>> => continuations = <<TransportFailureArgs>>)
        /\ ((call.fn \in SyncWrappers /\ pc = "returned") =>
               /\ result = <<TransportFailureArgs.err>>
               /\ out = EmptiedOutputs)

(* C24: on a transport failure every function delivers the translation *)
(* of the transport code alone, an empty payload, and an envelope      *)
(* whose fields all hold their default (not-applicable) values: the    *)
(* continuation of an asynchronous form receives them, and the info    *)
(* object of ttl, exist and sortkey_count holds them on return.        *)
C24_TransportFailureGivesDefaultEnvelope ==
    TransportFailed =>
        /\ TransportFailureInHandlersGivesDefaults
        /\ ((Checker \in SyncRpcForms /\ pc = "returned") =>
               /\ result = <<TransportFailureArgs.err>>
               /\ ~out.payload.written
               /\ (call.has_info => out.info.val = DefaultInfo))

(* what ttl / sortkey_count do leave in the info object: the three     *)
(* numbers reset, the serving node as the caller's object held it      *)
SyncRpcTransportFailureKeepsServer ==
    (TransportFailed /\ Checker \in SyncRpcForms /\ pc = "returned") =>
        /\ result = <<TransportFailureArgs.err>>
        /\ ~out.payload.written
        /\ (call.has_info =>
               out.info.val = [DefaultInfo EXCEPT !.server = PriorInfo.server])


(* ------------------------------------------------------------------ *)
(* Envelope of the write-class functions                               *)
(* ------------------------------------------------------------------ *)
(* a write-class function called with a continuation has had its       *)
(* completion delivered with the transport code Ok                     *)
WriteSucceeded ==
    /\ Invoked
    /\ Checker \in WriteClass
    /\ call.has_cb
    /\ completions # <<>>
    /\ completions[1].first = ERR_OK
    /\ continuations # <<>>

ResponseEnvelope(response) ==
    [app_id |-> response.app_id,
     partition_index |-> response.partition_index,
     decree |-> response.decree,
     server |-> response.server]

(* C25: when the transport succeeds, set, multi_set, del and multi_del *)
(* deliver an envelope whose app id, partition index, sequence number  *)
(* and serving node are the response's, whatever the storage status;   *)
(* with storage status 0 (and the translation table initialized) the   *)
(* client error is Ok; the synchronous wrapper hands both on to its    *)
(* caller.                                                             *)
C25_WriteEnvelopeFromResponse ==
    WriteSucceeded =>
        /\ Len(continuations) = 1
        /\ continuations[1].info = ResponseEnvelope(completions[1].second)
        /\ ((Initialized /\ completions[1].second.error = 0) =>
               continuations[1].err = PERR_OK)
        /\ ((call.fn \in SyncWrappers /\ pc = "returned") =>
               /\ result = <<continuations[1].err>>
               /\ (call.has_info =>
                      out.info = [written |-> TRUE,
                                  val |-> ResponseEnvelope(completions[1].second)]))

C25_Witness ==
    /\ WriteSucceeded
    /\ Initialized
    /\ call.fn = "multi_del"
    /\ call.has_info
    /\ pc = "returned"
    /\ completions[1].second.error = 0
    /\ result = <<PERR_OK>>
    /\ out.info.val.decree = completions[1].second.decree
    /\ out.info.val.decree # DefaultInfo.decree
    /\ out.info.val.server = completions[1].second.server

(* the same with a non-zero storage status: the envelope is still the  *)
(* response's                                                          *)
C25_WitnessStatus ==
    /\ WriteSucceeded
    /\ call.fn = "async_set"
    /\ completions[1].second.error # 0
    /\ continuations[1].info.decree = completions[1].second.decree
    /\ continuations[1].info.decree # DefaultInfo.decree


(* ------------------------------------------------------------------ *)
(* Split computation for every partition count                         *)
(* ------------------------------------------------------------------ *)
(* the metadata query of a split-scanner invocation has completed with *)
(* both statuses Ok                                                    *)
SplitQueryOk ==
    /\ Invoked
    /\ call.fn \in SplitFunctions
    /\ completions # <<>>
    /\ completions[1].first = ERR_OK
    /\ completions[1].second.err = ERR_OK

SplitScannersDelivered(n) ==
    /\ pc # "crashed"
    /\ Len(continuations) = 1
    /\ continuations[1].err = get_client_error(ERR_OK)
    /\ Len(continuations[1].payload.scanners) = n

(* C27: for every partition count P >= 0 reported with Ok status,      *)
(* P = 0 included, the split computation ends without a fault and the  *)
(* continuation is invoked with min(max_split_count, P) scanners.      *)
C27_SplitCompletesForEveryCount ==
    SplitQueryOk =>
        LET P == completions[1].second.partition_count
        IN  SplitScannersDelivered(IF P < call.max_split_count
                                   THEN P ELSE call.max_split_count)

(* what the code does guarantee: the same for every P >= 1 *)
SplitCompletesForPositiveCount ==
    (SplitQueryOk /\ completions[1].second.partition_count >= 1) =>
        LET P == completions[1].second.partition_count
        IN  SplitScannersDelivered(IF P < call.max_split_count
                                   THEN P ELSE call.max_split_count)

(* with P = 0 the division count / split has a zero divisor: the       *)
(* process either stops there or goes on with no scanner               *)
SplitWithNoPartitionFaultsOrDeliversNone ==
    (SplitQueryOk /\ completions[1].second.partition_count = 0) =>
        \/ pc = "crashed" /\ continuations = <<>>
        \/ SplitScannersDelivered(0)

(* ------------------------------------------------------------------ *)
(* Continuations per invocation                                        *)
(* ------------------------------------------------------------------ *)
(* an asynchronous form runs with a continuation: called directly with *)
(* one, or entered by its synchronous wrapper                          *)
AsyncWithContinuation ==
    /\ Invoked
    /\ call.has_cb
    /\ Checker \in AsyncRpcForms \cup {"async_get_unordered_scanners"}

(* the synchronous wrapper of the invocation has returned *)
WrapperReturned == call.fn \in SyncWrappers /\ pc \in {"returned", "idle"}

(* C26: an asynchronous form called with a continuation invokes it     *)
(* exactly once: at once with the validation error when the check      *)
(* fails (no request, no completion), and otherwise not before the     *)
(* completion and once when it is delivered; never twice, and never    *)
(* once the synchronous wrapper owning the result slots has returned.  *)
C26_ContinuationExactlyOnce ==
    AsyncWithContinuation =>
        /\ Len(continuations) <= 1
        /\ (~ArgsValid(Checker, call) => Len(continuations) = 1 /\ NoRequest)
        /\ ((ArgsValid(Checker, call) /\ completions = <<>>) => continuations = <<>>)
        /\ ((ArgsValid(Checker, call) /\ completions # <<>>) => Len(continuations) = 1)
        /\ (WrapperReturned => Len(continuations) = 1 /\ cbstep = 0 /\ notified)

(* what the code does guarantee: the same, except that the completion  *)
(* whose handler stopped at the zero divisor invoked nothing           *)
ContinuationOnceUnlessFaulted ==
    AsyncWithContinuation =>
        /\ Len(continuations) <= 1
        /\ (~ArgsValid(Checker, call) => Len(continuations) = 1 /\ NoRequest)
        /\ ((ArgsValid(Checker, call) /\ completions = <<>>) => continuations = <<>>)
        /\ ((ArgsValid(Checker, call) /\ completions # <<>> /\ pc # "crashed") =>
               Len(continuations) = 1)
        /\ (pc = "crashed" =>
               /\ SplitQueryOk
               /\ completions[1].second.partition_count = 0
               /\ continuations = <<>>)
        /\ (WrapperReturned => Len(continuations) = 1 /\ cbstep = 0 /\ notified)

(* ------------------------------------------------------------------ *)
(* async_get_scanner on a rejected hash key                            *)
(* ------------------------------------------------------------------ *)
ScannerRejected ==
    /\ Invoked
    /\ call.fn \in ScanFunctions
    /\ call.has_cb
    /\ ~ArgsValid("get_scanner", call)

(* C28: when get_scanner rejects the hash key it builds no scanner and *)
(* leaves the caller's scanner reference alone, and async_get_scanner  *)
(* invokes its continuation once with InvalidHashKey and a null        *)
(* scanner, never with an indeterminate one.                           *)
C28_RejectedScanDeliversNullScanner ==
    ScannerRejected =>
        /\ req = NoReq
        /\ (call.fn = "get_scanner" =>
               result = <<PERR_INVALID_HASH_KEY>> /\ out = Untouched)
        /\ (call.fn = "async_get_scanner" =>
               /\ Len(continuations) = 1
               /\ continuations[1].err = PERR_INVALID_HASH_KEY
               /\ continuations[1].payload.scanner.kind = "null")

(* what the code does guarantee: the error code, and a scanner         *)
(* reference that get_scanner never assigned                           *)
RejectedScanDeliversUnassignedScanner ==
    ScannerRejected =>
        /\ req = NoReq
        /\ (call.fn = "get_scanner" =>
               result = <<PERR_INVALID_HASH_KEY>> /\ out = Untouched)
        /\ (call.fn = "async_get_scanner" =>
               /\ Len(continuations) = 1
               /\ continuations[1].err = PERR_INVALID_HASH_KEY
               /\ continuations[1].payload \in IndeterminateScanners)

====
